---- MODULE Spec2Model ----
(***************************************************************************)
(* GEXtool (src/main.py): gextool rescales every GeoTIFF of input_dir with *)
(* convert_geotiff, then cuts every *_GEXD_resized.png of input_dir into   *)
(* tiles with cut_tiles, which classifies each tile with has_transparency  *)
(* when --no-alpha is set.                                                 *)
(*                                                                         *)
(* File names are sequences of characters; the fixed pieces of a name that *)
(* hold neither '.' nor ',' ("_GEXD", "_resized", "png", "tif") are single *)
(* elements.  A pixel is the tuple of its band values: <<v>> for a single  *)
(* band image (modes "P" and "L"), <<r, g, b, a>> for mode "RGBA".         *)
(***************************************************************************)
EXTENDS Integers, Sequences, FiniteSets, TLC

\* ------------------------------------------------------------------ bounds

MaxPixels == 6
MaxTileSize == 3
MaxFiles == 2

\* ------------------------------------------------------- program constants

converted_suffix == "_GEXD"
converted_format == "png"
tile_format == "png"
Opaque == 255
NoTransparency == -1
PadWidth == 4

\* ------------------------------------------------------------- file names

RECURSIVE Split0(_, _)
\* name.split(sep)[0]: the characters before the first sep (all, if none)
Split0(name, sep) ==
  IF name = << >> \/ Head(name) = sep THEN << >>
  ELSE <<Head(name)>> \o Split0(Tail(name), sep)

\* name.endswith(suffix)
EndsWith(name, suffix) ==
  /\ Len(name) >= Len(suffix)
  /\ SubSeq(name, Len(name) - Len(suffix) + 1, Len(name)) = suffix

DigitChars == <<"0", "1", "2", "3", "4", "5", "6", "7", "8", "9">>

RECURSIVE Str(_)
\* str(n) of a natural number: its decimal digits
Str(n) == IF n < 10 THEN <<DigitChars[n + 1]>>
          ELSE Str(n \div 10) \o <<DigitChars[(n % 10) + 1]>>

RECURSIVE Zeros(_)
Zeros(k) == IF k <= 0 THEN << >> ELSE <<"0">> \o Zeros(k - 1)

\* f'{n:0>4}': right aligned, filled with '0' up to 4 characters, never cut
Pad(n) == Zeros(PadWidth - Len(Str(n))) \o Str(n)

TifExt == <<".", "tif">>
GexdSuffix == <<converted_suffix, ".", converted_format>>
ResizedSuffix == <<converted_suffix, "_resized", ".", converted_format>>

IsTif(name) == EndsWith(name, TifExt)
IsGexd(name) == EndsWith(name, GexdSuffix)
IsResized(name) == EndsWith(name, ResizedSuffix)

\* gextool's gexd_file: filename.split(',')[0] + "_GEXD.png"
GexdFile(name) == Split0(name, ",") \o GexdSuffix

\* convert_geotiff's output_filename and resize_filename
OutputFilename(name) == Split0(name, ".") \o GexdSuffix
ResizeFilename(name) == Split0(name, ".") \o ResizedSuffix

\* cut_tiles' tile_name + "." + tile_format, the name of the tile in output_dir
TileFile(name, ox, oy) ==
  Split0(name, ".") \o <<"_">> \o Pad(ox) \o <<"_">> \o Pad(oy)
    \o <<".", tile_format>>

\* ---------------------------------------------------------------- rasters

\* The pixel values drawn for the rasters of the model.
BandValues == {0, 1}
AlphaValues == {254, 255}
PaletteTransparency == {NoTransparency, 0, 1}

Grid(w, h) == (0 .. w - 1) \X (0 .. h - 1)

PixelsOf(mode) ==
  IF mode = "RGBA" THEN {<<v, v, v, a>> : v \in {1}, a \in AlphaValues}
  ELSE {<<v>> : v \in BandValues}

\* A decoded image: img.mode, img.size, img.info.get("transparency", -1)
\* and its pixels.
RastersOf(mode, transp, w, h) ==
  {[mode |-> mode, width |-> w, height |-> h, transparency |-> t, pix |-> p] :
     t \in transp, p \in [Grid(w, h) -> PixelsOf(mode)]}

RastersOfSize(w, h) ==
  RastersOf("P", PaletteTransparency, w, h)
    \cup RastersOf("RGBA", {NoTransparency}, w, h)
    \cup RastersOf("L", {NoTransparency}, w, h)

\* The rasters cut_tiles is checked on: every raster of at most MaxPixels pixels.
Sizes == {s \in (1 .. MaxPixels) \X (1 .. MaxPixels) : s[1] * s[2] <= MaxPixels}
Rasters == UNION {RastersOfSize(s[1], s[2]) : s \in Sizes}

\* gdal_translate -ot UInt16 writes one band.
ConvertedRasters ==
  UNION {RastersOf("L", {NoTransparency}, w, 1) : w \in {1, 2}}

\* The rasters the files of input_dir hold in a whole run of gextool.
RunRasters == ConvertedRasters \cup RastersOf("RGBA", {NoTransparency}, 1, 1)

NoImage == [mode |-> "none", width |-> 0, height |-> 0,
            transparency |-> NoTransparency, pix |-> << >>]

TileSizes == 1 .. MaxTileSize

\* The pixel Image.crop writes where the box lies outside the image.
ZeroPixel(mode) == IF mode = "RGBA" THEN <<0, 0, 0, 0>> ELSE <<0>>

\* Crop, had it cut the box down to the image.
CropClamped(im, l, u, r, b) ==
  LET rr == IF r > im.width THEN im.width ELSE r
      bb == IF b > im.height THEN im.height ELSE b
  IN [mode |-> im.mode, width |-> rr - l, height |-> bb - u,
      transparency |-> im.transparency,
      pix |-> [c \in Grid(rr - l, bb - u) |-> im.pix[<<l + c[1], u + c[2]>>]]]

\* img.crop((l, u, r, b)): an image of r - l by b - u pixels, of the mode and
\* info of img; a pixel of the box outside img is zero.
Crop(im, l, u, r, b) ==
  [mode |-> im.mode, width |-> r - l, height |-> b - u,
   transparency |-> im.transparency,
   pix |-> [c \in Grid(r - l, b - u) |->
              IF l + c[1] < im.width /\ u + c[2] < im.height
              THEN im.pix[<<l + c[1], u + c[2]>>]
              ELSE ZeroPixel(im.mode)]]

\* cut_tiles' crop box at the origin (ox, oy)
TileAt(im, ox, oy, size) == Crop(im, ox, oy, ox + (size - 1), oy + (size - 1))

\* ------------------------------------------------------- has_transparency

\* list(img.getdata())
GetData(t) == {t.pix[c] : c \in DOMAIN t.pix}

\* the indexes of img.getcolors(), a list of (count, index)
GetColors(t) == {p[1] : p \in GetData(t)}

\* img.getextrema()[3][0]
MinAlpha(t) ==
  CHOOSE m \in {p[4] : p \in GetData(t)} : \A p \in GetData(t) : m <= p[4]

\* img.getextrema() of an image without pixels has no minimum to give.
ExtremaUndefined(t) == t.mode = "RGBA" /\ GetData(t) = {}

\* has_transparency without its test of the palette index.
HasTransparencyNoPalette(t) ==
  IF t.mode = "RGBA" /\ ~ExtremaUndefined(t) /\ MinAlpha(t) < Opaque THEN TRUE
  ELSE \E pixel \in GetData(t) : pixel = <<0>>

\* has_transparency without its test of the alpha band.
HasTransparencyNoAlpha(t) ==
  IF t.mode = "P" /\ \E index \in GetColors(t) : index = t.transparency THEN TRUE
  ELSE \E pixel \in GetData(t) : pixel = <<0>>

HasTransparency(t) ==
  IF t.mode = "P" /\ \E index \in GetColors(t) : index = t.transparency THEN TRUE
  ELSE IF t.mode = "RGBA" /\ ~ExtremaUndefined(t) /\ MinAlpha(t) < Opaque THEN TRUE
  ELSE \E pixel \in GetData(t) : pixel = <<0>>

\* ShouldSaveTile with the classification taken the wrong way round.
ShouldSaveTileInverted(prev, na, t) == IF na THEN HasTransparency(t) ELSE prev

\* lines 71-72: should_save_tile is assigned only when no_alpha is set
ShouldSaveTile(prev, na, t) == IF na THEN ~HasTransparency(t) ELSE prev

\* InRange, had the loop kept only the origins of whole tiles.
InRangeFull(v, stop, step) == v + step <= stop

\* range(0, stop, step) yields v while v < stop
InRange(v, stop, step) == v < stop

\* ------------------------------------------------------------------ state

VARIABLES
  input_dir,          \* the names of the files of input_dir
  cwd_files,          \* the names of the files of the working directory
  tile_size,          \* --tile_size
  no_alpha,           \* --no-alpha
  skip_tif,           \* --skip-tif
  pc,                 \* where the run stands
  todo,               \* the names of os.listdir(input_dir) the loop has yet to visit
  total_tif_count,    \* gextool's total_tif_count
  loop_count,         \* gextool's loop_count
  total_gexd_count,   \* gextool's total_gexd_count
  tile_count,         \* gextool's tile_count
  filename,           \* cut_tiles' filename
  img,                \* cut_tiles' img
  raster_open,        \* whether the raster cut_tiles opened is still held open
  x,                  \* cut_tiles' x
  y,                  \* cut_tiles' y
  cut_tile_count,     \* cut_tiles' tile_count
  should_save_tile,   \* cut_tiles' should_save_tile
  tile,               \* cut_tiles' tile, the last crop
  verdict,            \* what has_transparency returned for tile, if called
  origins,            \* the origins cut_tiles has visited in this call
  saves,              \* the calls of tile.save, in order, with their outcome
  calls               \* the calls and returns of the run, in order

vars == <<input_dir, cwd_files, tile_size, no_alpha, skip_tif, pc, todo,
          total_tif_count, loop_count, total_gexd_count, tile_count, filename,
          img, raster_open, x, y, cut_tile_count, should_save_tile, tile,
          verdict, origins, saves, calls>>

params == <<cwd_files, tile_size, no_alpha, skip_tif>>
counters == <<total_tif_count, loop_count, total_gexd_count, tile_count>>
cut_locals == <<filename, img, raster_open, x, y, cut_tile_count,
                should_save_tile, tile, verdict, origins>>

NoFile == << >>

\* One line of the run's record: a call of convert_geotiff with how it ended, a
\* call of cut_tiles, the count cut_tiles returned, gextool's final report.
Event(op, file, result, n) == [op |-> op, file |-> file, result |-> result, n |-> n]

\* The files input_dir may hold when gextool starts.
TifCandidates == {<<"a">> \o TifExt, <<"a", ",", "b">> \o TifExt}
ResizedCandidates ==
  {<<"a", ".", "b">> \o ResizedSuffix, <<"a", ".", "c">> \o ResizedSuffix}

Init ==
  /\ input_dir \in {d \in SUBSET (TifCandidates \cup ResizedCandidates) :
                      Cardinality(d) <= MaxFiles}
  /\ cwd_files \in SUBSET {GexdFile(f) : f \in {g \in input_dir : IsTif(g)}}
  /\ tile_size \in TileSizes
  /\ no_alpha \in BOOLEAN
  /\ skip_tif \in BOOLEAN
  /\ pc = "start"
  /\ todo = {}
  /\ total_tif_count = 0
  /\ loop_count = 0
  /\ total_gexd_count = 0
  /\ tile_count = 0
  /\ filename = NoFile
  /\ img = NoImage
  /\ raster_open = FALSE
  /\ x = 0
  /\ y = 0
  /\ cut_tile_count = 0
  /\ should_save_tile = TRUE
  /\ tile = NoImage
  /\ verdict = "not called"
  /\ origins = << >>
  /\ saves = << >>
  /\ calls = << >>

\* ---------------------------------------------------------------- gextool

\* lines 146-148: skip_tif set, no GeoTIFF is looked at
StartSkipTif ==
  /\ pc = "start"
  /\ skip_tif
  /\ pc' = "count_gexd"
  /\ UNCHANGED <<input_dir, params, todo, counters, cut_locals, saves, calls>>

\* lines 149-160: count the .tif files, then list input_dir for the loop
StartCountTifs ==
  /\ pc = "start"
  /\ ~skip_tif
  /\ total_tif_count' = Cardinality({f \in input_dir : IsTif(f)})
  /\ loop_count' = 0
  /\ todo' = input_dir
  /\ pc' = "rescale"
  /\ UNCHANGED <<input_dir, params, total_gexd_count, tile_count, cut_locals,
                 saves, calls>>

\* line 161: a name that does not end with ".tif"
RescaleOther(f) ==
  /\ pc = "rescale"
  /\ f \in todo
  /\ ~IsTif(f)
  /\ todo' = todo \ {f}
  /\ UNCHANGED <<input_dir, params, pc, counters, cut_locals, saves, calls>>

\* AlreadyGexd, had the name been split at its first '.'.
AlreadyGexdByStem(f) == OutputFilename(f) \in cwd_files

\* lines 162-164: os.path.isfile(gexd_file), a path relative to the working
\* directory
AlreadyGexd(f) == GexdFile(f) \in cwd_files

RescaleAlreadyGexd(f) ==
  /\ pc = "rescale"
  /\ f \in todo
  /\ IsTif(f)
  /\ AlreadyGexd(f)
  /\ calls' = Append(calls, Event("already gexd", f, "", 0))
  /\ todo' = todo \ {f}
  /\ UNCHANGED <<input_dir, params, pc, counters, cut_locals, saves>>

\* AfterSkip, had convert_geotiff raised instead of returning.
AfterSkipAbort == "aborted"

\* convert_geotiff's bare return (lines 100, 130) goes back to gextool's loop
AfterSkip == "rescale"

\* lines 165-168 and 97-100: gdalinfo's output has no Max=..,.. to match
ConvertNoMatch(f) ==
  /\ pc = "rescale"
  /\ f \in todo
  /\ IsTif(f)
  /\ ~AlreadyGexd(f)
  /\ loop_count' = loop_count + 1
  /\ calls' = Append(calls, Event("convert", f, "no match", 0))
  /\ todo' = todo \ {f}
  /\ pc' = AfterSkip
  /\ UNCHANGED <<input_dir, params, total_tif_count, total_gexd_count,
                 tile_count, cut_locals, saves>>

\* lines 165-168, 117 and 128-130: gdal_translate left no output_path
ConvertNoFile(f) ==
  /\ pc = "rescale"
  /\ f \in todo
  /\ IsTif(f)
  /\ ~AlreadyGexd(f)
  /\ OutputFilename(f) \notin input_dir
  /\ loop_count' = loop_count + 1
  /\ calls' = Append(calls, Event("convert", f, "no file", 0))
  /\ todo' = todo \ {f}
  /\ pc' = AfterSkip
  /\ UNCHANGED <<input_dir, params, total_tif_count, total_gexd_count,
                 tile_count, cut_locals, saves>>

\* lines 165-168 and 117-127: output_path is resized into resize_filename and
\* removed
ConvertOk(f) ==
  /\ pc = "rescale"
  /\ f \in todo
  /\ IsTif(f)
  /\ ~AlreadyGexd(f)
  /\ loop_count' = loop_count + 1
  /\ input_dir' = (input_dir \cup {ResizeFilename(f)}) \ {OutputFilename(f)}
  /\ calls' = Append(calls, Event("convert", f, "ok", 0))
  /\ todo' = todo \ {f}
  /\ UNCHANGED <<params, pc, total_tif_count, total_gexd_count, tile_count,
                 cut_locals, saves>>

\* lines 118-123: Image.open, resize or save raises; nothing catches it and
\* output_path stays
ConvertRaises(f) ==
  /\ pc = "rescale"
  /\ f \in todo
  /\ IsTif(f)
  /\ ~AlreadyGexd(f)
  /\ loop_count' = loop_count + 1
  /\ input_dir' = input_dir \cup {OutputFilename(f)}
  /\ calls' = Append(calls, Event("convert", f, "raised", 0))
  /\ todo' = todo \ {f}
  /\ pc' = "aborted"
  /\ UNCHANGED <<params, total_tif_count, total_gexd_count, tile_count,
                 cut_locals, saves>>

\* line 160: the loop over the listing ends
RescaleDone ==
  /\ pc = "rescale"
  /\ todo = {}
  /\ pc' = "count_gexd"
  /\ UNCHANGED <<input_dir, params, todo, counters, cut_locals, saves, calls>>

\* lines 171-182: count the *_GEXD.png names, then list input_dir for the
\* tile loop
CountGexd ==
  /\ pc = "count_gexd"
  /\ total_gexd_count' = Cardinality({f \in input_dir : IsGexd(f)})
  /\ tile_count' = 0
  /\ todo' = input_dir
  /\ pc' = "tile"
  /\ UNCHANGED <<input_dir, params, total_tif_count, loop_count, cut_locals,
                 saves, calls>>

\* line 184: a name that does not end with "_GEXD_resized.png"
TileOther(f) ==
  /\ pc = "tile"
  /\ f \in todo
  /\ ~IsResized(f)
  /\ todo' = todo \ {f}
  /\ UNCHANGED <<input_dir, params, pc, counters, cut_locals, saves, calls>>

\* -------------------------------------------------------------- cut_tiles

\* Whether f was written by convert_geotiff in this run.
WasConverted(f) ==
  \E i \in 1 .. Len(calls) :
    /\ calls[i].op = "convert"
    /\ calls[i].result = "ok"
    /\ ResizeFilename(calls[i].file) = f

\* What decoding f can give.
Decoded(f) == IF WasConverted(f) THEN ConvertedRasters ELSE RunRasters

\* lines 184-185 and 57-62: cut_tiles is called on f and opens it
CutTilesOpen(f) ==
  /\ pc = "tile"
  /\ f \in todo
  /\ IsResized(f)
  /\ todo' = todo \ {f}
  /\ filename' = f
  /\ img' \in Decoded(f)
  /\ raster_open' = TRUE
  /\ x' = 0
  /\ y' = 0
  /\ cut_tile_count' = 0
  /\ should_save_tile' = TRUE
  /\ tile' = NoImage
  /\ verdict' = "not called"
  /\ origins' = << >>
  /\ calls' = Append(calls, Event("cut", f, "", 0))
  /\ pc' = "cut_loop"
  /\ UNCHANGED <<input_dir, params, counters, saves>>

\* line 59: Image.open raises on a file it cannot decode; nothing catches it
CutTilesOpenRaises(f) ==
  /\ pc = "tile"
  /\ f \in todo
  /\ IsResized(f)
  /\ todo' = todo \ {f}
  /\ filename' = f
  /\ calls' = Append(calls, Event("cut", f, "raised", 0))
  /\ pc' = "aborted"
  /\ UNCHANGED <<input_dir, params, counters, img, raster_open, x, y,
                 cut_tile_count, should_save_tile, tile, verdict, origins, saves>>

\* lines 63-64: the next origin of the two nested range loops, y fastest
Advance ==
  IF InRange(y + tile_size, img.height, tile_size)
  THEN /\ y' = y + tile_size
       /\ UNCHANGED <<x, pc>>
  ELSE IF InRange(x + tile_size, img.width, tile_size)
       THEN /\ x' = x + tile_size
            /\ y' = 0
            /\ UNCHANGED pc
       ELSE /\ pc' = "cut_return"
            /\ UNCHANGED <<x, y>>

\* lines 65-72: the crop at (x, y) and, under no_alpha, its classification
Candidate ==
  LET t == TileAt(img, x, y, tile_size)
  IN /\ tile' = t
     /\ origins' = Append(origins, <<x, y>>)
     /\ should_save_tile' = ShouldSaveTile(should_save_tile, no_alpha, t)
     /\ verdict' = IF ~no_alpha THEN "not called"
                   ELSE IF HasTransparency(t) THEN "True" ELSE "False"

SaveRecord(ok) ==
  [path |-> TileFile(filename, x, y), file |-> filename, x |-> x, y |-> y,
   ok |-> ok]

\* lines 65-75: the tile at (x, y) is not saved
TileReject ==
  /\ pc = "cut_loop"
  /\ Candidate
  /\ ~should_save_tile'
  /\ Advance
  /\ UNCHANGED <<input_dir, params, todo, counters, filename, img,
                 raster_open, cut_tile_count, saves, calls>>

\* lines 65-84: the tile at (x, y) is counted and saved
TileSave ==
  /\ pc = "cut_loop"
  /\ Candidate
  /\ should_save_tile'
  /\ cut_tile_count' = cut_tile_count + 1
  /\ saves' = Append(saves, SaveRecord(TRUE))
  /\ Advance
  /\ UNCHANGED <<input_dir, params, todo, counters, filename, img,
                 raster_open, calls>>

\* OnSaveError, had the loop caught the error and gone on.
OnSaveErrorSwallowed == "cut_loop"

\* line 84: tile.save raises in no try block, here or in gextool
OnSaveError == "aborted"

\* lines 65-84: the tile at (x, y) is counted and tile.save raises
TileSaveRaises ==
  /\ pc = "cut_loop"
  /\ Candidate
  /\ should_save_tile'
  /\ cut_tile_count' = cut_tile_count + 1
  /\ saves' = Append(saves, SaveRecord(FALSE))
  /\ pc' = OnSaveError
  /\ UNCHANGED <<input_dir, params, todo, counters, filename, img,
                 raster_open, x, y, calls>>

\* lines 72 and 42-43: under no_alpha, getextrema of an RGBA tile without
\* pixels (tile_size 1) may give no (min, max) to index, and has_transparency
\* then raises; the library decides, so the tile may also be classified
\* (TileReject, TileSave)
TileClassifyRaises ==
  /\ pc = "cut_loop"
  /\ no_alpha
  /\ ExtremaUndefined(TileAt(img, x, y, tile_size))
  /\ tile' = TileAt(img, x, y, tile_size)
  /\ origins' = Append(origins, <<x, y>>)
  /\ verdict' = "raised"
  /\ pc' = "aborted"
  /\ UNCHANGED <<input_dir, params, todo, counters, filename, img,
                 raster_open, x, y, cut_tile_count, should_save_tile, saves,
                 calls>>

\* lines 86 and 185-186: cut_tiles returns its count, gextool adds it; img goes
\* out of scope unclosed, and whether the raster is freed there is up to the
\* runtime's collector
CutTilesReturn ==
  /\ pc = "cut_return"
  /\ tile_count' = tile_count + cut_tile_count
  /\ calls' = Append(calls, Event("return", filename, "", cut_tile_count))
  /\ raster_open' \in BOOLEAN
  /\ img' = NoImage
  /\ x' = 0
  /\ y' = 0
  /\ cut_tile_count' = 0
  /\ tile' = NoImage
  /\ verdict' = "not called"
  /\ origins' = << >>
  /\ pc' = "tile"
  /\ UNCHANGED <<input_dir, params, todo, total_tif_count, loop_count,
                 total_gexd_count, filename, should_save_tile, saves>>

\* lines 182 and 188-194: the tile loop ends and gextool reports tile_count
Finish ==
  /\ pc = "tile"
  /\ todo = {}
  /\ calls' = Append(calls, Event("report", NoFile, "", tile_count))
  /\ pc' = "done"
  /\ UNCHANGED <<input_dir, params, todo, counters, cut_locals, saves>>

Next ==
  \/ StartSkipTif
  \/ StartCountTifs
  \/ \E f \in todo : RescaleOther(f)
  \/ \E f \in todo : RescaleAlreadyGexd(f)
  \/ \E f \in todo : ConvertNoMatch(f)
  \/ \E f \in todo : ConvertNoFile(f)
  \/ \E f \in todo : ConvertOk(f)
  \/ \E f \in todo : ConvertRaises(f)
  \/ RescaleDone
  \/ CountGexd
  \/ \E f \in todo : TileOther(f)
  \/ \E f \in todo : CutTilesOpen(f)
  \/ \E f \in todo : CutTilesOpenRaises(f)
  \/ TileReject
  \/ TileSave
  \/ TileSaveRaises
  \/ TileClassifyRaises
  \/ CutTilesReturn
  \/ Finish

\* A whole run of gextool.
Spec == Init /\ [][Next]_vars

\* cut_tiles, called by gextool on one file, right after it opened the raster.
InitTiler ==
  /\ filename = <<"a">> \o ResizedSuffix
  /\ input_dir = {filename}
  /\ cwd_files = {}
  /\ tile_size \in TileSizes
  /\ no_alpha \in BOOLEAN
  /\ skip_tif = TRUE
  /\ pc = "cut_loop"
  /\ todo = {}
  /\ total_tif_count = 0
  /\ loop_count = 0
  /\ total_gexd_count = 0
  /\ tile_count = 0
  /\ img \in Rasters
  /\ raster_open = TRUE
  /\ x = 0
  /\ y = 0
  /\ cut_tile_count = 0
  /\ should_save_tile = TRUE
  /\ tile = NoImage
  /\ verdict = "not called"
  /\ origins = << >>
  /\ saves = << >>
  /\ calls = <<Event("cut", filename, "", 0)>>

NextTiler ==
  \/ TileReject
  \/ TileSave
  \/ TileSaveRaises
  \/ TileClassifyRaises
  \/ CutTilesReturn
  \/ Finish

SpecTiler == InitTiler /\ [][NextTiler]_vars

\* ------------------------------------------------------ checked properties

Ceil(a, b) == (a + b - 1) \div b

InCutTiles == pc \in {"cut_loop", "cut_return"}

LastOrigin == origins[Len(origins)]

\* The indexes of the events of calls with the given op and file.
EventsOf(op, f) == {i \in 1 .. Len(calls) : calls[i].op = op /\ calls[i].file = f}

RECURSIVE SumReturned(_)
\* The sum of the counts the cut_tiles calls of a record returned.
SumReturned(log) ==
  IF log = << >> THEN 0
  ELSE (IF Head(log).op = "return" THEN Head(log).n ELSE 0) + SumReturned(Tail(log))

\* C1: when the grid walk of cut_tiles ends, it has visited exactly
\* ceil(W/S) * ceil(H/S) origins, pairwise distinct, and every origin it
\* visits satisfies 0 <= x < W and 0 <= y < H.
C1_GridWalk ==
  /\ pc = "cut_return" =>
       /\ Len(origins) = Ceil(img.width, tile_size) * Ceil(img.height, tile_size)
       /\ \A i, j \in 1 .. Len(origins) : origins[i] = origins[j] => i = j
  /\ \A i \in 1 .. Len(origins) :
       /\ 0 <= origins[i][1] /\ origins[i][1] < img.width
       /\ 0 <= origins[i][2] /\ origins[i][2] < img.height

\* C1 witness: a walk has ended on a raster whose width is no multiple of the
\* tile size, after more than one column of origins.
C1_Witness ==
  /\ pc = "cut_return"
  /\ img.width % tile_size # 0
  /\ img.width > tile_size
  /\ Len(origins) >= 2

\* C2: while cut_tiles runs, a visited origin's tile is left out (not saved)
\* exactly when no_alpha is set and has_transparency is true of that tile;
\* the count is the number of tiles saved, and without no_alpha it is the
\* number of candidates.
C2_RejectIffTransparent ==
  InCutTiles =>
    /\ \A i \in 1 .. Len(origins) :
         LET o == origins[i]
             written == \E k \in 1 .. Len(saves) :
                          /\ saves[k].file = filename
                          /\ saves[k].x = o[1]
                          /\ saves[k].y = o[2]
                          /\ saves[k].ok
         IN ~written <=>
              (no_alpha /\ HasTransparency(TileAt(img, o[1], o[2], tile_size)))
    /\ cut_tile_count = Len(saves)
    /\ ~no_alpha => cut_tile_count = Len(origins)

\* C2 witness: under no_alpha a walk has ended with some tiles saved and
\* some left out.
C2_Witness ==
  /\ pc = "cut_return"
  /\ no_alpha
  /\ 0 < cut_tile_count
  /\ cut_tile_count < Len(origins)

\* C4: once cut_tiles has ended, by its return or by a failure, the raster it
\* opened is no longer open.
C4_RasterReleased == pc \in {"tile", "done", "aborted"} => ~raster_open

\* C5: has_transparency on a palette tile with transparent index t is true
\* when a pixel's index is t, and false when no pixel's index is t and no
\* pixel's value is 0.
C5_Palette ==
  (verdict \in {"True", "False"} /\ tile.mode = "P") =>
    /\ (\E c \in DOMAIN tile.pix : tile.pix[c][1] = tile.transparency)
         => verdict = "True"
    /\ (\A c \in DOMAIN tile.pix :
          tile.pix[c][1] # tile.transparency /\ tile.pix[c][1] # 0)
         => verdict = "False"

\* C5 witness: a palette tile without a 0 pixel, holding its transparent
\* index, has been classified.
C5_Witness ==
  /\ verdict = "True"
  /\ tile.mode = "P"
  /\ \E c \in DOMAIN tile.pix : tile.pix[c][1] = tile.transparency
  /\ \A c \in DOMAIN tile.pix : tile.pix[c][1] # 0

\* C6: has_transparency on an RGBA tile is true when some pixel's alpha is
\* below 255, and false when every pixel's alpha is 255 and no pixel is the
\* single value 0.
C6_Alpha ==
  (verdict \in {"True", "False"} /\ tile.mode = "RGBA") =>
    /\ (\E c \in DOMAIN tile.pix : tile.pix[c][4] < 255) => verdict = "True"
    /\ (\A c \in DOMAIN tile.pix : tile.pix[c][4] = 255 /\ tile.pix[c] # <<0>>)
         => verdict = "False"

\* C6 witness: an RGBA tile whose least alpha is 254 has been classified.
C6_Witness ==
  /\ verdict = "True"
  /\ tile.mode = "RGBA"
  /\ \E c \in DOMAIN tile.pix : tile.pix[c][4] = 254
  /\ \A c \in DOMAIN tile.pix : tile.pix[c][4] >= 254

\* The least of two numbers.
Min(a, b) == IF a < b THEN a ELSE b

\* C7 as claimed: the tile cut at an origin is the crop box clamped to the
\* raster: it ends where the raster ends and every pixel of it is a pixel of
\* the raster.
C7_Clamped ==
  (pc \in {"cut_loop", "cut_return", "aborted"} /\ origins # << >>) =>
    LET ox == LastOrigin[1]
        oy == LastOrigin[2]
    IN /\ tile.width = Min(ox + (tile_size - 1), img.width) - ox
       /\ tile.height = Min(oy + (tile_size - 1), img.height) - oy
       /\ \A c \in DOMAIN tile.pix :
            /\ ox + c[1] < img.width
            /\ oy + c[2] < img.height
            /\ tile.pix[c] = img.pix[<<ox + c[1], oy + c[2]>>]

\* C7 as amended: every origin of the grid gets a tile, also one whose crop
\* box leaves the raster; the tile always has tile_size - 1 columns and
\* rows, with the raster's pixels where the box lies in the raster and zero
\* pixels where it does not.
C7_ZeroFilled ==
  /\ (pc \in {"cut_loop", "cut_return", "aborted"} /\ origins # << >>) =>
       LET ox == LastOrigin[1]
           oy == LastOrigin[2]
       IN /\ tile.width = tile_size - 1
          /\ tile.height = tile_size - 1
          /\ tile.mode = img.mode
          /\ DOMAIN tile.pix = (0 .. tile_size - 2) \X (0 .. tile_size - 2)
          /\ \A c \in DOMAIN tile.pix :
               IF ox + c[1] < img.width /\ oy + c[2] < img.height
               THEN tile.pix[c] = img.pix[<<ox + c[1], oy + c[2]>>]
               ELSE tile.pix[c] = (IF img.mode = "RGBA" THEN <<0, 0, 0, 0>> ELSE <<0>>)
  /\ pc = "cut_return" =>
       \A ox \in 0 .. img.width - 1, oy \in 0 .. img.height - 1 :
         (ox % tile_size = 0 /\ oy % tile_size = 0)
           => \E i \in 1 .. Len(origins) : origins[i] = <<ox, oy>>

\* C7 witness: a tile has been cut whose box leaves the raster, holding a
\* non-zero pixel of the raster and a pixel from outside it.
C7_Witness ==
  /\ pc \in {"cut_loop", "cut_return"}
  /\ origins # << >>
  /\ LastOrigin[1] + (tile_size - 1) > img.width
  /\ \E c \in DOMAIN tile.pix :
       /\ LastOrigin[1] + c[1] < img.width
       /\ LastOrigin[2] + c[2] < img.height
       /\ tile.pix[c] # <<0>>
  /\ \E c \in DOMAIN tile.pix : LastOrigin[1] + c[1] >= img.width

\* C3: no two tiles written in a run from different (source file, origin) pairs
\* go to the same path of output_dir.
C3_UniquePaths ==
  \A i, j \in 1 .. Len(saves) :
    (saves[i].ok /\ saves[j].ok /\ saves[i].path = saves[j].path) =>
      /\ saves[i].file = saves[j].file
      /\ saves[i].x = saves[j].x
      /\ saves[i].y = saves[j].y

\* C9: a tile.save that fails is the last tile.save of the run: the run is
\* aborted, cut_tiles has returned no count for that file, no other call
\* follows and gextool reports nothing.
C9_WriteFailureFatal ==
  \A i \in 1 .. Len(saves) :
    ~saves[i].ok =>
      /\ i = Len(saves)
      /\ pc = "aborted"
      /\ EventsOf("return", saves[i].file) = {}
      /\ calls[Len(calls)] = Event("cut", saves[i].file, "", 0)
      /\ \A k \in 1 .. Len(calls) : calls[k].op # "report"

\* C9 witness: tile.save has failed on a second tile of a raster whose first
\* tile was written, with another rescaled raster still to be cut.
C9_Witness ==
  /\ Len(saves) >= 2
  /\ ~saves[Len(saves)].ok
  /\ saves[Len(saves) - 1].ok
  /\ saves[Len(saves) - 1].file = saves[Len(saves)].file
  /\ \E f \in todo : EndsWith(f, ResizedSuffix)

Tifs == {f \in input_dir : EndsWith(f, TifExt)}

\* Every convert_geotiff call precedes every cut_tiles call.
RescaleBeforeTiles ==
  \A i, j \in 1 .. Len(calls) :
    (calls[i].op = "convert" /\ calls[j].op = "cut") => i < j

\* When the run is done, cut_tiles was called exactly once for every
\* *_GEXD_resized.png of input_dir and for nothing else, and the count
\* reported is the sum of the counts returned.
TilerAtDone ==
  pc = "done" =>
    /\ \A f \in input_dir :
         EndsWith(f, ResizedSuffix) => Cardinality(EventsOf("cut", f)) = 1
    /\ \A k \in 1 .. Len(calls) :
         calls[k].op = "cut" =>
           calls[k].file \in input_dir /\ EndsWith(calls[k].file, ResizedSuffix)
    /\ calls[Len(calls)].op = "report"
    /\ calls[Len(calls)].n = SumReturned(calls)

Skipped(e) == e.op = "convert" /\ e.result \in {"no match", "no file"}

C8_SkipStep ==
  /\ (Len(calls') = Len(calls) + 1 /\ Skipped(calls'[Len(calls')])) =>
       /\ input_dir' = input_dir
       /\ pc' = "rescale"
       /\ todo' = todo \ {calls'[Len(calls')].file}
  /\ (pc = "rescale" /\ pc' = "count_gexd") =>
       \A f \in Tifs :
         Split0(f, ",") \o GexdSuffix \notin cwd_files
           => EventsOf("convert", f) # {}

====
